---- MODULE Spec2Model ----
(***************************************************************************)
(* Model of the sweek-scheduling match service: the students / matches     *)
(* relations of the datastore, the update-match-stage endpoint (POST),     *)
(* the token resolver of the view route and the view route itself, the     *)
(* CompanyCard component of the client and the sorting of the match list.  *)
(*                                                                         *)
(* A request handler is split at its awaits: the body is read and          *)
(* validated, the student lookup runs in the datastore, the stage-update   *)
(* procedure runs in the datastore, the response is built.  Other handlers *)
(* and the operator may act between two steps of one handler.              *)
(***************************************************************************)
EXTENDS Integers, FiniteSets, Sequences, TLC

VARIABLES students, companies, matches, req, view, card, shown

vars == <<students, companies, matches, req, view, card, shown>>

----------------------------------------------------------------------------
(* Values *)

Null == "null"

\* JS `undefined`: a field the JSON body does not carry.
Absent == "undefined"

\* The array validStages of the endpoint.
validStages ==
    {"pending", "accepted", "rejected", "assigned", "need_to_schedule",
     "scheduled", "completed", "declined", "canceled", "no_show"}

\* The values the check constraint on sweek_matches.stage admits.
SchemaStages ==
    {"pending", "accepted", "rejected", "scheduled", "completed",
     "declined", "canceled", "no_show"}

\* The default of sweek_matches.stage.
DefaultStage == "pending"

StudentIds == {"s1", "s2"}
CompanyIds == {"c1", "c2"}

\* The rows of sweek_matches (primary key (student_id, company_id)) the sync
\* job has loaded: s1 is matched with both companies, s2 with c1 only.
MatchKeys == {<<"s1", "c1">>, <<"s1", "c2">>, <<"s2", "c1">>}

SchedulingUrl(c) == IF c = "c1" THEN "url1" ELSE "url2"

TierOf(k) == IF k = <<"s1", "c2">> THEN "Match" ELSE "Top 10"

\* Bearer tokens a caller may present: the tokens of the magic links and a
\* string no link carries.
Tokens == {"tokA", "tokB", "tokX"}

\* createHash("sha256").update(token).digest("hex"): a digest is not the
\* token, and distinct tokens of the domain have distinct digests.
Sha256Hex(token) ==
    CASE token = "tokA" -> "hA"
      [] token = "tokB" -> "hB"
      [] OTHER -> "hX"

\* JS truthiness of a body field: `!x` holds of undefined and of "".
Falsy(x) == x = Absent \/ x = ""

\* A JSON value that is no string, such as the number 123: it is truthy, it
\* is no member of an array of strings and Hash.update does not accept it.
NumberValue == "#number"

IsString(x) == x # Absent /\ x # NumberValue

----------------------------------------------------------------------------
(* Datastore queries *)

\* The student query without its is_active filter.
ByHashAnyActivity(h) ==
    {s \in DOMAIN students : students[s].token_hash = h}

\* The student query without its token_hash filter.
ActiveAnyHash(h) ==
    {s \in DOMAIN students : students[s].is_active}

\* .eq("token_hash", h).eq("is_active", true) on sweek_students.
ActiveByHash(h) ==
    {s \in DOMAIN students :
        students[s].token_hash = h /\ students[s].is_active}

\* A query that takes the first row when several match.
SingleFirstRow(rows) ==
    IF rows # {}
    THEN [data |-> CHOOSE x \in rows : TRUE, error |-> FALSE]
    ELSE [data |-> Null, error |-> TRUE]

\* .single(): the one row, or an error when the rows are not exactly one.
Single(rows) ==
    IF Cardinality(rows) = 1
    THEN [data |-> CHOOSE x \in rows : TRUE, error |-> FALSE]
    ELSE [data |-> Null, error |-> TRUE]

\* The student query of both resolvers; `down` is a failed round trip.
QueryStudent(tokenHash, down) ==
    IF down THEN [data |-> Null, error |-> TRUE]
    ELSE Single(ActiveByHash(tokenHash))

\* getStudentByToken of the view route.
getStudentByToken(token, down) ==
    LET r == QueryStudent(Sha256Hex(token), down)
    IN  IF r.error THEN Null
        ELSE IF r.data = Null THEN Null
        ELSE r.data

\* getStudentMatches: the rows of the student, each joined (inner) with its
\* company and carrying the tier and the stage of the match; the empty list
\* when the query reports an error or yields no data (`down`).
getStudentMatches(studentId, down) ==
    IF down THEN {}
    ELSE {[id |-> k[2], scheduling_url |-> companies[k[2]].scheduling_url,
           tier |-> matches[k].tier, stage |-> matches[k].stage] :
             k \in {q \in DOMAIN matches :
                       q[1] = studentId /\ q[2] \in DOMAIN companies}}

\* The check constraint as the sync job's schema writes it.
StageCheckSyncSchema(stage) ==
    stage \in {"assigned", "accepted", "scheduled", "completed", "declined",
               "canceled", "no_show"}

\* check (stage in (...)) of sweek_matches.
StageCheck(stage) == stage \in SchemaStages

\* The stored procedure update_match_stage(p_student_id, p_company_id,
\* p_stage): one atomic statement on the row of the key, which returns the
\* row it has written.  `fault` is the fate of the round trip: "none",
\* "fail" (the call fails before the statement runs) or "lost" (the
\* statement commits, the reply is lost).  A lookup that fails is recorded
\* as the fault "down".
update_match_stage(m, studentId, companyId, stage, fault) ==
    LET k == <<studentId, companyId>>
    IN  IF fault = "fail"
        THEN [matches |-> m, data |-> Null, error |-> TRUE]
        ELSE IF k \notin DOMAIN m
        THEN [matches |-> m, data |-> Null, error |-> (fault = "lost")]
        ELSE IF ~StageCheck(stage)
        THEN [matches |-> m, data |-> Null, error |-> TRUE]
        ELSE [matches |-> [m EXCEPT ![k].stage = stage],
              data |-> IF fault = "lost" THEN Null ELSE stage,
              error |-> (fault = "lost")]

----------------------------------------------------------------------------
(* The update endpoint *)

NoStage == "-"

Response(status, success, error, stage) ==
    [status |-> status, success |-> success, error |-> error, stage |-> stage]

NoResp == Response(0, FALSE, "", NoStage)

MissingFields ==
    Response(400, FALSE, "Missing required fields: token, companyId, stage",
             NoStage)

InvalidStage == Response(400, FALSE, "Invalid stage value", NoStage)

StudentNotFound == Response(404, FALSE, "Student not found or inactive", NoStage)

UpdateFailed == Response(500, FALSE, "Failed to update match stage", NoStage)

InternalError == Response(500, FALSE, "Internal server error", NoStage)

Success(stage) == Response(200, TRUE, "", stage)

Body(token, companyId, stage) ==
    [token |-> token, companyId |-> companyId, stage |-> stage]

NoBody == Body(Absent, Absent, Absent)

NoRpc == [data |-> Null, error |-> FALSE]

IdleReq ==
    [pc |-> "idle", body |-> NoBody, student |-> Null, rpc |-> NoRpc,
     fault |-> "none", resp |-> NoResp]

\* The presence check with companyId left out.
MissingFieldNoCompany(b) == Falsy(b.token) \/ Falsy(b.stage)

\* The presence check of the three fields.
MissingField(b) == Falsy(b.token) \/ Falsy(b.companyId) \/ Falsy(b.stage)

\* A membership test that ignores the case of the first letter.
IsValidStageAnyCase(stage) == stage \in validStages \cup {"Pending"}

\* validStages.includes(stage)
IsValidStage(stage) == stage \in validStages

\* The two validations with the stage looked at first.
ValidateStageFirst(b) ==
    IF ~IsValidStage(b.stage) THEN InvalidStage
    ELSE IF MissingField(b) THEN MissingFields
    ELSE NoResp

\* The two validations, in the order of the handler; NoResp when both pass.
Validate(b) ==
    IF MissingField(b) THEN MissingFields
    ELSE IF ~IsValidStage(b.stage) THEN InvalidStage
    ELSE NoResp

\* The arguments of supabase.rpc('update_match_stage', ...).
RpcArgs(r) ==
    [p_student_id |-> req[r].student,
     p_company_id |-> req[r].body.companyId,
     p_stage |-> req[r].body.stage]

\* The response built without looking at the error of the rpc.
RpcResponseNoErrorCheck(rpc) ==
    IF rpc.data = Null
    THEN Response(500, FALSE, "Internal server error", "-")
    ELSE Response(200, TRUE, "", rpc.data)

\* The response built from the result of the rpc: an error is a 500, a
\* result without a row makes `data.stage` throw, which the catch turns
\* into a 500.
RpcResponse(rpc) ==
    IF rpc.error THEN UpdateFailed
    ELSE IF rpc.data = Null THEN InternalError
    ELSE Success(rpc.data)

Handlers == {"h1", "h2"}

\* A handler without the catch: what was thrown leaves it, no response is
\* built.
Escaped == NoResp

\* What the catch of the handler answers to whatever was thrown in the try.
Caught == InternalError

\* POST, to its first await on the datastore: the body is destructured and
\* validated; a body that fails is answered at once; a token that is no
\* string makes createHash(...).update(token) throw, which is caught.
Receive(r, b) ==
    /\ req[r].pc = "idle"
    /\ LET v == Validate(b)
       IN  req' = [req EXCEPT ![r] =
                IF v # NoResp
                THEN [IdleReq EXCEPT !.pc = "done", !.body = b, !.resp = v]
                ELSE IF ~IsString(b.token)
                THEN [IdleReq EXCEPT !.pc = "done", !.body = b, !.resp = Caught]
                ELSE [IdleReq EXCEPT !.pc = "lookup", !.body = b]]
    /\ UNCHANGED <<students, companies, matches, view, card, shown>>

\* POST with a body request.json() rejects (no JSON), or the JSON null, whose
\* destructuring throws: the catch answers.
ReceiveUnparsable(r) ==
    /\ req[r].pc = "idle"
    /\ req' = [req EXCEPT ![r] =
            [IdleReq EXCEPT !.pc = "done", !.fault = "parse", !.resp = Caught]]
    /\ UNCHANGED <<students, companies, matches, view, card, shown>>

\* The student query throws instead of returning {data, error}.
LookupThrows(r) ==
    /\ req[r].pc = "lookup"
    /\ req' = [req EXCEPT ![r].pc = "done", ![r].fault = "throw",
                          ![r].resp = Caught]
    /\ UNCHANGED <<students, companies, matches, view, card, shown>>

\* The rpc throws instead of returning {data, error}, before the statement
\* ran or after it committed.
UpdateThrows(r, committed) ==
    /\ req[r].pc = "rpc"
    /\ LET a == RpcArgs(r)
           u == update_match_stage(matches, a.p_student_id, a.p_company_id,
                                   a.p_stage, "lost")
       IN  matches' = IF committed THEN u.matches ELSE matches
    /\ req' = [req EXCEPT ![r].pc = "done", ![r].fault = "throw",
                          ![r].resp = Caught]
    /\ UNCHANGED <<students, companies, view, card, shown>>

\* The student query runs; no row or an error is a 404.
StudentLookup(r, down) ==
    /\ req[r].pc = "lookup"
    /\ LET q == QueryStudent(Sha256Hex(req[r].body.token), down)
       IN  req' = [req EXCEPT ![r] =
                IF q.error \/ q.data = Null
                THEN [@ EXCEPT !.pc = "done", !.resp = StudentNotFound,
                               !.fault = IF down THEN "down" ELSE "none"]
                ELSE [@ EXCEPT !.pc = "rpc", !.student = q.data]]
    /\ UNCHANGED <<students, companies, matches, view, card, shown>>

\* The stored procedure runs in the datastore.
UpdateCall(r, fault) ==
    /\ req[r].pc = "rpc"
    /\ LET a == RpcArgs(r)
           u == update_match_stage(matches, a.p_student_id, a.p_company_id,
                                   a.p_stage, fault)
       IN  /\ matches' = u.matches
           /\ req' = [req EXCEPT ![r].pc = "respond",
                                 ![r].fault = fault,
                                 ![r].rpc = [data |-> u.data, error |-> u.error]]
    /\ UNCHANGED <<students, companies, view, card, shown>>

\* The handler resumes with the result of the rpc and answers.
Respond(r) ==
    /\ req[r].pc = "respond"
    /\ req' = [req EXCEPT ![r].pc = "done", ![r].resp = RpcResponse(req[r].rpc)]
    /\ UNCHANGED <<students, companies, matches, view, card, shown>>

\* The response has been sent; the handler is free for the next request.
Finish(r) ==
    /\ req[r].pc = "done"
    /\ req' = [req EXCEPT ![r] = IdleReq]
    /\ UNCHANGED <<students, companies, matches, view, card, shown>>

\* An operator deactivates a student.
Deactivate(s) ==
    /\ students[s].is_active
    /\ students' = [students EXCEPT ![s].is_active = FALSE]
    /\ UNCHANGED <<companies, matches, req, view, card, shown>>

----------------------------------------------------------------------------
(* The view route *)

\* What the caller of /s/[token] gets: the not-found view, or the page of
\* the student with the student's matches.
NotFound == [kind |-> "notFound", student |-> Null, matches |-> {}]

\* A lookup that tells a deactivated account from an unknown token.
StudentPageLookupLeaky(token, down) ==
    LET student == getStudentByToken(token, down)
    IN  IF student # Null
        THEN [kind |-> "loading", student |-> student, matches |-> {}]
        ELSE IF \E s \in DOMAIN students :
                   students[s].token_hash = Sha256Hex(token)
             THEN [kind |-> "inactive", student |-> Null, matches |-> {}]
             ELSE NotFound

\* StudentPage, to its second await: notFound() when the token resolves to
\* no student, else the render waits for the matches of the student.
StudentPageLookup(token, down) ==
    LET student == getStudentByToken(token, down)
    IN  IF student = Null THEN NotFound
        ELSE [kind |-> "loading", student |-> student, matches |-> {}]

\* StudentPage, from the result of getStudentMatches on: the page of the
\* student with the list the query gave.
StudentPageRender(student, down) ==
    [kind |-> "matches", student |-> student,
     matches |-> getStudentMatches(student, down)]

NoView ==
    [token |-> Absent, down |-> FALSE, matchesDown |-> FALSE,
     page |-> [kind |-> "none", student |-> Null, matches |-> {}]]

\* A caller opens /s/<token>: the student query runs.
ViewLookup(token, down) ==
    /\ view.page.kind # "loading"
    /\ view' = [token |-> token, down |-> down, matchesDown |-> FALSE,
                page |-> StudentPageLookup(token, down)]
    /\ UNCHANGED <<students, companies, matches, req, card, shown>>

\* The matches query of the page runs, in a later round trip, and the page
\* is rendered.
ViewMatches(down) ==
    /\ view.page.kind = "loading"
    /\ view' = [view EXCEPT !.matchesDown = down,
                            !.page = StudentPageRender(view.page.student, down)]
    /\ UNCHANGED <<students, companies, matches, req, card, shown>>

----------------------------------------------------------------------------
(* The client *)

\* The fetch of the card is awaited by no handler: no request is under way,
\* or it has not reached the endpoint.
NoConn == "none"

\* No card is mounted.
NoCard ==
    [stage |-> NoStage, isUpdating |-> FALSE, showDetails |-> FALSE,
     newStage |-> NoStage, inFlight |-> 0, conn |-> NoConn]

\* No list has been sorted.
NoList == [input |-> <<>>, output |-> <<>>, by |-> "none"]

\* A card that opens every stage in the detail view.
InitialCardDetails(stage) ==
    [stage |-> stage, isUpdating |-> FALSE, showDetails |-> TRUE,
     newStage |-> NoStage, inFlight |-> 0, conn |-> NoConn]

\* CompanyCard, first render: the three useState initial values; newStage
\* is the argument of the running updateStage, inFlight the number of calls
\* of updateStage that have not reached their finally block, conn the
\* handler whose response the awaited fetch waits for.
InitialCard(stage) ==
    [stage |-> stage, isUpdating |-> FALSE, showDetails |-> stage # "pending",
     newStage |-> NoStage, inFlight |-> 0, conn |-> NoConn]

\* A click that shows the new stage before the server has answered.
OnClickOptimistic(c, newStage) ==
    [c EXCEPT !.isUpdating = TRUE, !.newStage = newStage, !.stage = newStage,
              !.inFlight = @ + 1]

\* updateStage, to its fetch: setIsUpdating(true) and the request is sent.
OnClick(c, newStage) ==
    [c EXCEPT !.isUpdating = TRUE, !.newStage = newStage, !.inFlight = @ + 1]

\* The showDetails a confirmed stage sets: false for rejected and pending,
\* true for accepted and for every other stage.
ShowDetailsFor(newStage) ==
    IF newStage = "accepted" THEN TRUE
    ELSE IF newStage = "rejected" THEN FALSE
    ELSE IF newStage = "pending" THEN FALSE
    ELSE TRUE

\* updateStage after an ok response: setStage, setShowDetails, and the
\* finally block.
OnSuccess(c) ==
    [c EXCEPT !.stage = c.newStage, !.showDetails = ShowDetailsFor(c.newStage),
              !.isUpdating = FALSE, !.newStage = NoStage,
              !.inFlight = @ - 1, !.conn = NoConn]

\* A catch without the finally block: isUpdating stays set.
OnFailureNoFinally(c) == [c EXCEPT !.newStage = NoStage, !.conn = NoConn]

\* updateStage after a response that is not ok or a fetch that threw: the
\* catch logs, the finally block clears isUpdating.
OnFailure(c) ==
    [c EXCEPT !.isUpdating = FALSE, !.newStage = NoStage, !.inFlight = @ - 1,
              !.conn = NoConn]

\* response.ok: a status of 200..299.
ResponseOk(resp) == resp.status >= 200 /\ resp.status <= 299

\* updateStage from the response on.
OnResponse(c, resp) ==
    IF ResponseOk(resp) THEN OnSuccess(c) ELSE OnFailure(c)

\* The items of the status selector.
SelectItems ==
    {"need_to_schedule", "scheduled", "completed", "canceled", "no_show"}

isRejected(c) == c.stage = "rejected"
isAccepted(c) == c.stage \in {"need_to_schedule", "scheduled", "completed"}
isPending(c) == c.stage = "pending"

\* The branch of the render: the preview card or the full details.
IsPreview(c) == (isPending(c) /\ ~c.showDetails) \/ isRejected(c)

\* What the card renders: the layout and the controls it carries.
ViewMode(c) ==
    [layout |-> IF IsPreview(c)
                THEN (IF isRejected(c) THEN "collapsed" ELSE "compact")
                ELSE "detail",
     accept |-> IsPreview(c) /\ ~isRejected(c),
     pass |-> IsPreview(c) /\ ~isRejected(c),
     undo |-> IF IsPreview(c) THEN isRejected(c) ELSE ~isPending(c),
     selector |-> ~IsPreview(c) /\ ~isPending(c),
     schedule |-> ~IsPreview(c) /\ isAccepted(c),
     disabled |-> c.isUpdating]

\* A selector that also lists rejected.
ControlTargetsWithRejected(c) ==
    LET v == ViewMode(c)
    IN  (IF v.accept THEN {"need_to_schedule"} ELSE {})
        \cup (IF v.pass THEN {"rejected"} ELSE {})
        \cup (IF v.undo THEN {"pending"} ELSE {})
        \cup (IF v.selector THEN SelectItems \cup {"rejected"} ELSE {})

\* The stages the controls of the render ask for: Accept, Pass, the undo
\* buttons and the items of the selector.
ControlTargets(c) ==
    LET v == ViewMode(c)
    IN  (IF v.accept THEN {"need_to_schedule"} ELSE {})
        \cup (IF v.pass THEN {"rejected"} ELSE {})
        \cup (IF v.undo THEN {"pending"} ELSE {})
        \cup (IF v.selector THEN SelectItems ELSE {})

\* Controls that stay enabled during an update.
OfferedWhileUpdating(c) == ControlTargets(c)

\* The requests a user can start: none while the controls are disabled.
Offered(c) == IF ViewMode(c).disabled THEN {} ELSE ControlTargets(c)

\* The card of company c1 on the page /s/tokA.
CardToken == "tokA"
CardCompany == "c1"

\* window.location.pathname.split("/")[2], company.id and the new stage.
CardBody(c) == Body(CardToken, CardCompany, c.newStage)

\* The user uses an enabled control of the card.
CardClick(newStage) ==
    /\ card # NoCard
    /\ newStage \in Offered(card)
    /\ card' = OnClick(card, newStage)
    /\ UNCHANGED <<students, companies, matches, req, view, shown>>

\* The request of the card reaches the endpoint, at a free handler.
CardDeliver(r) ==
    /\ card.isUpdating
    /\ card.conn = NoConn
    /\ req[r].pc = "idle"
    /\ LET b == CardBody(card)
           v == Validate(b)
       IN  req' = [req EXCEPT ![r] =
                IF v # NoResp
                THEN [IdleReq EXCEPT !.pc = "done", !.body = b, !.resp = v]
                ELSE [IdleReq EXCEPT !.pc = "lookup", !.body = b]]
    /\ card' = [card EXCEPT !.conn = r]
    /\ UNCHANGED <<students, companies, matches, view, shown>>

\* The response reaches the card.
CardSettle ==
    /\ card.isUpdating
    /\ card.conn # NoConn
    /\ req[card.conn].pc = "done"
    /\ card' = OnResponse(card, req[card.conn].resp)
    /\ req' = [req EXCEPT ![card.conn] = IdleReq]
    /\ UNCHANGED <<students, companies, matches, view, shown>>

\* The awaited fetch rejects: before the request arrived, while its handler
\* runs, or after the handler answered.  The card runs catch and finally at
\* once; a handler that has the request goes on.
CardFetchThrows ==
    /\ card.isUpdating
    /\ card' = OnFailure(card)
    /\ UNCHANGED <<students, companies, matches, req, view, shown>>

\* A handler has answered a request whose fetch the card no longer awaits.
FinishOrphan(r) ==
    /\ card.conn # r
    /\ Finish(r)

----------------------------------------------------------------------------
(* Request bodies *)

TokenInputs == Tokens \cup {Absent, ""}
CompanyInputs == CompanyIds \cup {Absent, ""}
StageInputs == validStages \cup {Absent, "", "bogus_stage", "Pending"}

Bodies ==
    {Body(t, c, s) : t \in TokenInputs, c \in CompanyInputs, s \in StageInputs}

\* The datastore as the sync job leaves it: token_hash is not declared
\* unique, so s2 may carry the hash of s1; a student may be inactive.
InitData ==
    /\ students \in
         {[s \in StudentIds |->
             [token_hash |-> IF s = "s1" THEN "hA" ELSE h2, is_active |-> act[s]]] :
          h2 \in {"hA", "hB"}, act \in [StudentIds -> BOOLEAN]}
    /\ companies = [c \in CompanyIds |-> [scheduling_url |-> SchedulingUrl(c)]]
    /\ matches = [k \in MatchKeys |-> [tier |-> TierOf(k), stage |-> DefaultStage]]

Init ==
    /\ InitData
    /\ req = [r \in Handlers |-> IdleReq]
    /\ view = NoView
    /\ card = NoCard
    /\ shown = NoList

\* One request at a time, over every body.
Next ==
    \/ \E b \in Bodies : Receive("h1", b)
    \/ \E down \in BOOLEAN : StudentLookup("h1", down)
    \/ \E fault \in {"none", "fail", "lost"} : UpdateCall("h1", fault)
    \/ Respond("h1")
    \/ Finish("h1")
    \/ \E s \in StudentIds : Deactivate(s)

Spec == Init /\ [][Next]_vars

----------------------------------------------------------------------------
(* Two handlers at once on the key (s1, c1) *)

ConcBodies == {Body("tokA", "c1", s) : s \in validStages}

NextConc ==
    \/ \E r \in Handlers, b \in ConcBodies : Receive(r, b)
    \/ \E r \in Handlers, down \in BOOLEAN : StudentLookup(r, down)
    \/ \E r \in Handlers, fault \in {"none", "fail", "lost"} : UpdateCall(r, fault)
    \/ \E r \in Handlers : Respond(r)
    \/ \E r \in Handlers : Finish(r)
    \/ \E s \in StudentIds : Deactivate(s)

SpecConc == Init /\ [][NextConc]_vars

----------------------------------------------------------------------------
(* The view route beside the endpoint *)

ViewBodies ==
    {Body(t, "c1", s) : t \in Tokens, s \in {"pending", "scheduled"}}

NextView ==
    \/ \E t \in Tokens, down \in BOOLEAN : ViewLookup(t, down)
    \/ \E down \in BOOLEAN : ViewMatches(down)
    \/ \E b \in ViewBodies : Receive("h1", b)
    \/ \E down \in BOOLEAN : StudentLookup("h1", down)
    \/ \E fault \in {"none", "fail", "lost"} : UpdateCall("h1", fault)
    \/ Respond("h1")
    \/ Finish("h1")
    \/ \E s \in StudentIds : Deactivate(s)

SpecView == Init /\ [][NextView]_vars

----------------------------------------------------------------------------
(* The sorted list of matches *)

\* The comparator of the page: "Top 10" first.
compareTier(a, b) ==
    IF a.tier = "Top 10" /\ b.tier # "Top 10" THEN -1
    ELSE IF a.tier # "Top 10" /\ b.tier = "Top 10" THEN 1
    ELSE 0

AcceptedStages == {"need_to_schedule", "scheduled", "completed"}

\* A comparator that looks at the tier before the accepted stages.
compareMatchesTierFirst(a, b) ==
    IF a.stage = "rejected" /\ b.stage # "rejected" THEN 1
    ELSE IF a.stage # "rejected" /\ b.stage = "rejected" THEN -1
    ELSE IF compareTier(a, b) # 0 THEN compareTier(a, b)
    ELSE IF a.stage \in AcceptedStages /\ b.stage \notin AcceptedStages THEN -1
    ELSE IF a.stage \notin AcceptedStages /\ b.stage \in AcceptedStages THEN 1
    ELSE 0

\* The comparator of StudentMatchesPage: rejected last, then the accepted
\* stages first, then "Top 10" first.
compareMatches(a, b) ==
    IF a.stage = "rejected" /\ b.stage # "rejected" THEN 1
    ELSE IF a.stage # "rejected" /\ b.stage = "rejected" THEN -1
    ELSE IF a.stage \in AcceptedStages /\ b.stage \notin AcceptedStages THEN -1
    ELSE IF a.stage \notin AcceptedStages /\ b.stage \in AcceptedStages THEN 1
    ELSE compareTier(a, b)

\* The comparator of the component named by `by`.
Compare(by, a, b) ==
    IF by = "page" THEN compareTier(a, b) ELSE compareMatches(a, b)

\* Array.prototype.sort is stable: x goes behind every element that does not
\* compare greater than it.
RECURSIVE Insert(_, _, _)
Insert(by, s, x) ==
    IF s = <<>> THEN <<x>>
    ELSE IF Compare(by, s[Len(s)], x) <= 0 THEN Append(s, x)
    ELSE Append(Insert(by, SubSeq(s, 1, Len(s) - 1), x), s[Len(s)])

\* matches.sort(comparator)
RECURSIVE SortBy(_, _)
SortBy(by, s) ==
    IF s = <<>> THEN <<>>
    ELSE Insert(by, SortBy(by, SubSeq(s, 1, Len(s) - 1)), s[Len(s)])

\* The longest list of matches of one student.
MaxMatches == 3

Tiers == {"Top 10", "Match"}

SortStages == {"pending", "rejected", "scheduled", "canceled"}

\* The lists getStudentMatches can return, in the order of the query result:
\* one entry per company, with the tier and the stage of the match.
MatchLists ==
    UNION {{[i \in 1..n |-> [id |-> i, tier |-> f[i][1], stage |-> f[i][2]]] :
                f \in [1..n -> Tiers \X SortStages]} : n \in 0..MaxMatches}

\* /s/[token]/page.tsx renders the list, once per request of the page.
SortPage(ms) ==
    /\ shown = NoList
    /\ shown' = [input |-> ms, output |-> SortBy("page", ms), by |-> "page"]
    /\ UNCHANGED <<students, companies, matches, req, view, card>>

\* StudentMatchesPage renders the list.
SortStudentMatchesPage(ms) ==
    /\ shown = NoList
    /\ shown' = [input |-> ms, output |-> SortBy("StudentMatchesPage", ms),
                 by |-> "StudentMatchesPage"]
    /\ UNCHANGED <<students, companies, matches, req, view, card>>

NextSort ==
    \/ \E ms \in MatchLists : SortPage(ms)
    \/ \E ms \in MatchLists : SortStudentMatchesPage(ms)

\* One render of one list: the datastore is at rest.
InitSort ==
    /\ Init
    /\ \A s \in StudentIds : students[s].is_active
    /\ students["s2"].token_hash = "hB"

SpecSort == InitSort /\ [][NextSort]_vars

----------------------------------------------------------------------------
(* One card against the endpoint *)

\* The page /s/tokA of the active student s1 has rendered the card of c1
\* from the stage the sync job stored.
InitCard ==
    /\ students = [s \in StudentIds |->
            [token_hash |-> IF s = "s1" THEN "hA" ELSE "hB", is_active |-> TRUE]]
    /\ companies = [c \in CompanyIds |-> [scheduling_url |-> SchedulingUrl(c)]]
    /\ \E st \in SchemaStages :
          matches = [k \in MatchKeys |->
              [tier |-> TierOf(k),
               stage |-> IF k = <<"s1", CardCompany>> THEN st ELSE DefaultStage]]
    /\ req = [r \in Handlers |-> IdleReq]
    /\ view = NoView
    /\ \E m \in getStudentMatches(getStudentByToken(CardToken, FALSE), FALSE) :
          m.id = CardCompany /\ card = InitialCard(m.stage)
    /\ shown = NoList

\* The students stay active and the student query is answered; the rpc
\* succeeds, is refused by the check constraint, or commits and loses its
\* reply, and the fetch may reject at any moment.
NextCard ==
    \/ \E st \in validStages : CardClick(st)
    \/ \E r \in Handlers : CardDeliver(r)
    \/ \E r \in Handlers : StudentLookup(r, FALSE)
    \/ \E r \in Handlers, fault \in {"none", "lost"} : UpdateCall(r, fault)
    \/ \E r \in Handlers : Respond(r)
    \/ CardSettle
    \/ CardFetchThrows
    \/ \E r \in Handlers : FinishOrphan(r)

SpecCard == InitCard /\ [][NextCard]_vars

\* The card against one handler: a request the card has given up keeps the
\* handler until it is answered.
NextCardOne ==
    \/ \E st \in validStages : CardClick(st)
    \/ CardDeliver("h1")
    \/ StudentLookup("h1", FALSE)
    \/ \E fault \in {"none", "lost"} : UpdateCall("h1", fault)
    \/ Respond("h1")
    \/ CardSettle
    \/ CardFetchThrows
    \/ FinishOrphan("h1")

\* The card with a fetch that settles: the request is delivered or fetch
\* throws, the endpoint runs each of its steps, the response is received or
\* fetch throws.
FairCard ==
    /\ WF_vars(CardDeliver("h1") \/ CardFetchThrows)
    /\ WF_vars(StudentLookup("h1", FALSE))
    /\ WF_vars(\E fault \in {"none", "lost"} : UpdateCall("h1", fault))
    /\ WF_vars(Respond("h1"))
    /\ WF_vars(FinishOrphan("h1"))
    /\ WF_vars(CardSettle \/ CardFetchThrows)

SpecCardLive == InitCard /\ [][NextCardOne]_vars /\ FairCard

----------------------------------------------------------------------------
(* The endpoint under malformed bodies and thrown exceptions *)

FaultBodies ==
    {Body(t, c, s) :
        t \in {Absent, "tokA", "tokX", NumberValue},
        c \in {Absent, "c1"},
        s \in {Absent, "pending", "need_to_schedule", "scheduled",
               "bogus_stage", NumberValue}}

NextFaults ==
    \/ \E b \in FaultBodies : Receive("h1", b)
    \/ ReceiveUnparsable("h1")
    \/ \E down \in BOOLEAN : StudentLookup("h1", down)
    \/ LookupThrows("h1")
    \/ \E fault \in {"none", "fail", "lost"} : UpdateCall("h1", fault)
    \/ \E committed \in BOOLEAN : UpdateThrows("h1", committed)
    \/ Respond("h1")
    \/ Finish("h1")
    \/ \E s \in StudentIds : Deactivate(s)

SpecFaults == Init /\ [][NextFaults]_vars

----------------------------------------------------------------------------
(* Properties of the update endpoint *)

\* The key the handler r hands to the stored procedure.
KeyOf(r) == <<req[r].student, req[r].body.companyId>>

\* Some active student carries the digest of the token.
HasActiveStudent(token) ==
    \E s \in DOMAIN students :
        students[s].token_hash = Sha256Hex(token) /\ students[s].is_active

\* The handler r has touched the datastore in no way.
NoDatastoreAccess(r) ==
    req[r].student = Null /\ req[r].rpc = NoRpc /\ req[r].fault = "none"

\* C1: a request whose token resolved to an active student, for a company
\* matched with that student, with a recognized stage S and no failure of
\* the round trip, is answered 200 {success, stage: S} and the row holds S.
C1_UpdateSucceeds ==
    \A r \in Handlers :
        ( /\ req[r].pc = "done"
          /\ req[r].student # Null
          /\ KeyOf(r) \in DOMAIN matches
          /\ req[r].body.stage \in validStages
          /\ req[r].fault = "none" )
        => /\ req[r].resp = Success(req[r].body.stage)
           /\ matches[KeyOf(r)].stage = req[r].body.stage

\* C2 as stated: every non-empty stage string outside the recognized set is
\* answered 400 "Invalid stage value", whatever token and companyId are.
C2_Original ==
    \A r \in Handlers :
        ( /\ req[r].pc # "idle"
          /\ ~Falsy(req[r].body.stage)
          /\ req[r].body.stage \notin validStages )
        => req[r].resp = InvalidStage

C2_State ==
    \A r \in Handlers :
        ( /\ req[r].pc # "idle"
          /\ ~Falsy(req[r].body.stage)
          /\ req[r].body.stage \notin validStages )
        => /\ req[r].pc = "done"
           /\ NoDatastoreAccess(r)
           /\ req[r].resp =
                IF Falsy(req[r].body.token) \/ Falsy(req[r].body.companyId)
                THEN MissingFields
                ELSE InvalidStage

C2_Step ==
    \A r \in Handlers :
        ( /\ req[r].pc = "idle"
          /\ req'[r].pc # "idle"
          /\ ~Falsy(req'[r].body.stage)
          /\ req'[r].body.stage \notin validStages )
        => matches' = matches

\* C2: a non-empty stage string outside the recognized set is answered 400
\* "Invalid stage value" when token and companyId are both present and
\* non-empty, and 400 "Missing required fields" otherwise; the handler
\* reaches neither the lookup nor the stored procedure and no row changes.
C2_InvalidStageRejected == []C2_State /\ [][C2_Step]_vars

C2_Witness ==
    \E r \in Handlers :
        /\ req[r].pc = "done"
        /\ req[r].body = Body("tokA", "c1", "bogus_stage")
        /\ req[r].resp = InvalidStage

C3_State ==
    \A r \in Handlers :
        ( /\ req[r].pc # "idle"
          /\ \/ req[r].body.token \in {Absent, ""}
             \/ req[r].body.companyId \in {Absent, ""}
             \/ req[r].body.stage \in {Absent, ""} )
        => /\ req[r].pc = "done"
           /\ NoDatastoreAccess(r)
           /\ req[r].resp = MissingFields

C3_Step ==
    \A r \in Handlers :
        ( /\ req[r].pc = "idle"
          /\ req'[r].pc # "idle"
          /\ \/ req'[r].body.token \in {Absent, ""}
             \/ req'[r].body.companyId \in {Absent, ""}
             \/ req'[r].body.stage \in {Absent, ""} )
        => matches' = matches

\* C3: a body in which token, companyId or stage is missing or empty is
\* answered 400 "Missing required fields: token, companyId, stage"; the
\* handler reaches neither the lookup nor the stored procedure and no row
\* changes.
C3_MissingFieldsRejected == []C3_State /\ [][C3_Step]_vars

C3_Witness ==
    \E r \in Handlers :
        /\ req[r].pc = "done"
        /\ req[r].body = Body("", "c1", "scheduled")
        /\ req[r].resp = MissingFields

C4_State ==
    \A r \in Handlers :
        /\ req[r].resp = StudentNotFound
             => req[r].student = Null /\ req[r].rpc = NoRpc
        /\ req[r].pc \in {"rpc", "respond"} => req[r].student # Null

C4_Step ==
    \A r \in Handlers :
        ( /\ req[r].pc = "lookup"
          /\ req'[r].pc # "lookup"
          /\ ~HasActiveStudent(req[r].body.token) )
        => /\ req'[r].pc = "done"
           /\ req'[r].resp = StudentNotFound
           /\ req'[r].student = Null
           /\ matches' = matches

\* C4: when the lookup of a validated request runs and no active student
\* carries the digest of the token, the request is answered 404 "Student
\* not found or inactive", the stored procedure is never called for it and
\* no row changes.
C4_UnresolvedTokenRejected == []C4_State /\ [][C4_Step]_vars

C4_Witness ==
    \E r \in Handlers :
        /\ req[r].pc = "done"
        /\ req[r].body.token = "tokB"
        /\ req[r].fault = "none"
        /\ students["s2"].token_hash = "hB"
        /\ ~students["s2"].is_active
        /\ req[r].resp = StudentNotFound

----------------------------------------------------------------------------
(* Properties of the token resolvers and of the view route *)

\* C5: a resolver answers not-found only when no active student carries the
\* digest of the token, and a student it returns carries that digest; for
\* getStudentByToken of the view route and for the lookup of the endpoint
\* (lookups whose round trip failed set aside).
C5_ResolverExact ==
    /\ (view.page.kind = "notFound" /\ ~view.down)
          => ~HasActiveStudent(view.token)
    /\ view.page.kind = "matches"
          => students[view.page.student].token_hash = Sha256Hex(view.token)
    /\ \A r \in Handlers :
          /\ (req[r].resp = StudentNotFound /\ req[r].fault = "none")
                => ~HasActiveStudent(req[r].body.token)
          /\ req[r].student # Null
                => students[req[r].student].token_hash
                     = Sha256Hex(req[r].body.token)

\* C6: any two tokens that no active student carries get the same page,
\* the not-found view, whether the token is unknown or belongs to a
\* deactivated student and whether or not the lookup itself failed.
C6_NotFoundIndistinguishable ==
    /\ \A t1, t2 \in Tokens, d1, d2 \in BOOLEAN :
          (~HasActiveStudent(t1) /\ ~HasActiveStudent(t2))
             => StudentPageLookup(t1, d1) = StudentPageLookup(t2, d2)
    /\ \A t \in Tokens, d \in BOOLEAN :
          ~HasActiveStudent(t) => StudentPageLookup(t, d) = NotFound
    /\ view.page.kind \in {"none", "notFound", "loading", "matches"}
    /\ view.page.kind = "notFound" => view.page = NotFound

C6_Witness ==
    /\ view.token = "tokB"
    /\ ~view.down
    /\ students["s2"].token_hash = "hB"
    /\ ~students["s2"].is_active
    /\ view.page = NotFound
    /\ StudentPageLookup("tokX", FALSE) = view.page

----------------------------------------------------------------------------
(* Properties of the stage update *)

\* C7: two requests for the same key with different recognized stages S1
\* and S2, both resolved and both without a failure of the round trip, have
\* completed: the row holds S1 or S2, and a request answered with success
\* got back the row it wrote.
C7_OneOfTwoPersisted ==
    \A r1, r2 \in Handlers :
        ( /\ r1 # r2
          /\ req[r1].pc = "done" /\ req[r2].pc = "done"
          /\ req[r1].student # Null /\ req[r2].student # Null
          /\ req[r1].fault = "none" /\ req[r2].fault = "none"
          /\ KeyOf(r1) = KeyOf(r2)
          /\ KeyOf(r1) \in DOMAIN matches
          /\ req[r1].body.stage # req[r2].body.stage )
        => /\ matches[KeyOf(r1)].stage
                \in {req[r1].body.stage, req[r2].body.stage}
           /\ \A r \in {r1, r2} :
                req[r].resp.success
                   => /\ req[r].resp.stage = req[r].body.stage
                      /\ req[r].rpc.data = req[r].body.stage

C8_State ==
    \A r \in Handlers :
        /\ (req[r].pc = "done" /\ req[r].rpc.error)
              => req[r].resp = UpdateFailed
        /\ req[r].resp.status = 500
              => ~req[r].resp.success /\ req[r].resp.stage = NoStage

C8_Step ==
    \A r \in Handlers :
        (req[r].pc = "rpc" /\ req'[r].pc = "respond" /\ req'[r].rpc.error)
        => \/ matches' = matches
           \/ /\ KeyOf(r) \in DOMAIN matches
              /\ matches' = [matches EXCEPT ![KeyOf(r)].stage = req[r].body.stage]

\* C8: a request whose stage-update call reported an error is answered 500
\* "Failed to update match stage"; the call left the row with its old stage
\* or with the requested stage, nothing else changed; a 500 carries no
\* success body.
C8_PersistenceFailure == []C8_State /\ [][C8_Step]_vars

C8_Witness ==
    \E r \in Handlers :
        /\ req[r].pc = "done"
        /\ req[r].rpc.error
        /\ req[r].fault = "lost"
        /\ req[r].body.stage = "scheduled"
        /\ matches[KeyOf(r)].stage = "scheduled"
        /\ req[r].resp = UpdateFailed

ChangedRows == {k \in DOMAIN matches : matches'[k].stage # matches[k].stage}

C9_Step ==
    req' # req
    => /\ students' = students
       /\ companies' = companies
       /\ DOMAIN matches' = DOMAIN matches
       /\ \A k \in DOMAIN matches : matches'[k].tier = matches[k].tier
       /\ Cardinality(ChangedRows) <= 1
       /\ \A k \in ChangedRows :
            \E r \in Handlers :
                /\ req[r].pc = "rpc" /\ req'[r].pc = "respond"
                /\ k = <<req[r].student, req[r].body.companyId>>
                /\ students[k[1]].token_hash = Sha256Hex(req[r].body.token)
                /\ matches'[k].stage = req[r].body.stage

\* C9: a step of a request changes at most the stage of the one row keyed
\* by the student the token resolved to and the companyId of the request;
\* every other stage, every tier, the students and the companies stay as
\* they are and no row is created or deleted.
C9_Frame == [][C9_Step]_vars

C9_Witness ==
    \E r \in Handlers :
        /\ req[r].pc = "done"
        /\ req[r].resp = Success("completed")
        /\ KeyOf(r) = <<"s1", "c1">>
        /\ matches[<<"s1", "c1">>].stage = "completed"
        /\ matches[<<"s1", "c2">>].stage = "pending"
        /\ matches[<<"s2", "c1">>].stage = "pending"

C10_State ==
    \A r \in Handlers :
        ( /\ req[r].pc = "done"
          /\ req[r].body.stage = "pending"
          /\ req[r].student # Null
          /\ KeyOf(r) \in DOMAIN matches
          /\ req[r].fault = "none" )
        => /\ req[r].resp = Success("pending")
           /\ \E m \in getStudentMatches(req[r].student, FALSE) :
                 m.id = req[r].body.companyId /\ m.stage = "pending"

C10_Step ==
    \A r \in Handlers :
        ( /\ req[r].pc = "rpc" /\ req'[r].pc = "respond"
          /\ req[r].body.stage = "pending"
          /\ KeyOf(r) \in DOMAIN matches
          /\ req'[r].fault = "none" )
        => /\ matches[KeyOf(r)].stage \in validStages
           /\ matches' = [matches EXCEPT ![KeyOf(r)].stage = "pending"]
           /\ matches[KeyOf(r)].stage = "pending" => matches' = matches
           /\ req'[r].rpc = [data |-> "pending", error |-> FALSE]

\* C10: an update to pending of a matched row, from whatever stage the row
\* holds, succeeds and the read of the student's matches that follows shows
\* pending; applied to a row that already holds pending it succeeds again
\* and leaves the datastore as it was.
C10_UndoIdempotent == []C10_State /\ [][C10_Step]_vars

C10_Witness ==
    \E r \in Handlers :
        /\ req[r].pc = "done"
        /\ req[r].resp = Success("pending")
        /\ matches[KeyOf(r)].stage = "pending"
        /\ \E k \in DOMAIN matches : matches[k].stage = "rejected"

----------------------------------------------------------------------------
(* Claims about the card *)

\* The request of the card has been answered with an ok response.
CardAnsweredOk ==
    /\ card.isUpdating
    /\ card.conn # NoConn
    /\ req[card.conn].pc = "done"
    /\ req[card.conn].body = CardBody(card)
    /\ ResponseOk(req[card.conn].resp)

C11_Step ==
    (card'.stage # card.stage \/ card'.showDetails # card.showDetails)
        => /\ CardAnsweredOk
           /\ card'.stage = card.newStage
           /\ card'.showDetails = ShowDetailsFor(card.newStage)

\* C11: the stage and showDetails a card displays change only in the step
\* that receives an ok response to the card's own request, and then to the
\* requested stage and the showDetails of that stage; a response that is not
\* ok or a fetch that throws leaves both as they were.
C11_ChangeOnlyOnSuccess == [][C11_Step]_vars

\* A card whose request for another stage has been answered ok, and whose
\* display still holds the stage from before the request.
C11_Witness ==
    /\ CardAnsweredOk
    /\ card.newStage = "scheduled"
    /\ card.stage = "canceled"
    /\ matches[<<"s1", CardCompany>>].stage = "scheduled"

\* The view the specification gives to a displayed stage.
C12_Mapping(c) ==
    LET v == ViewMode(c)
    IN  /\ c.stage = "pending"
            => v.layout = "compact" /\ v.accept /\ v.pass
               /\ ~v.undo /\ ~v.selector /\ ~v.schedule
        /\ c.stage = "rejected"
            => v.layout = "collapsed" /\ v.undo
               /\ ~v.accept /\ ~v.pass /\ ~v.selector /\ ~v.schedule
        /\ c.stage \in {"need_to_schedule", "scheduled", "completed"}
            => v.layout = "detail" /\ v.schedule /\ ~v.accept
        /\ c.stage \in {"canceled", "no_show"}
            => v.layout = "detail" /\ v.undo /\ v.selector
               /\ ~v.accept /\ ~v.schedule

\* C12: the view of a card follows from its displayed stage alone: at the
\* first render of every stage value, in every reachable state of the card,
\* and in the state an ok response to the pending request would produce,
\* pending is the compact accept/decline card, rejected the collapsed card
\* with undo, need_to_schedule, scheduled and completed the detail card with
\* the scheduling action, canceled and no_show the detail card with undo and
\* the selector and neither accept nor the scheduling action.
C12_ViewFollowsStage ==
    /\ \A st \in validStages : C12_Mapping(InitialCard(st))
    /\ C12_Mapping(card)
    /\ card.isUpdating => C12_Mapping(OnSuccess(card))

\* An ok response is about to move a scheduled card to canceled.
C12_Witness ==
    /\ CardAnsweredOk
    /\ card.newStage = "canceled"
    /\ card.stage = "scheduled"
    /\ ViewMode(card).schedule
    /\ ~ViewMode(OnSuccess(card)).schedule

C13_State ==
    /\ \A st \in validStages \ {"pending"} :
          "pending" \in Offered(InitialCard(st))
    /\ (card # NoCard /\ ~card.isUpdating /\ card.stage # "pending")
          => "pending" \in Offered(card)

C13_Step ==
    (/\ CardAnsweredOk
     /\ card.newStage = "pending"
     /\ card' = OnResponse(card, req[card.conn].resp))
        => /\ card'.stage = "pending"
           /\ matches'[<<"s1", CardCompany>>].stage = "pending"

\* C13: no stage is terminal: a card that displays any recognized stage other
\* than pending (accepted, declined and assigned included) and has no request
\* in flight offers the undo that requests pending, and when the card
\* receives the ok response to that request its stage and the stored stage of
\* the match are both pending.
C13_UndoAlwaysOffered == []C13_State /\ [][C13_Step]_vars

\* The requests the specification lets a card of a displayed stage issue.
C20_Allowed(stage, target) ==
    /\ stage = "pending" => target \in {"need_to_schedule", "rejected"}
    /\ stage = "rejected" => target = "pending"
    /\ target = "rejected" => stage = "pending"

\* C20: a card that displays pending issues requests for need_to_schedule and
\* rejected only, a card that displays rejected issues requests for pending
\* only, and no card that displays another stage than pending issues a
\* request for rejected: this holds for the controls of the first render of
\* every stage, for the controls of every reachable card, and for the
\* request a card has in flight.
C20_CardRequests ==
    /\ \A st \in validStages :
          \A t \in Offered(InitialCard(st)) : C20_Allowed(st, t)
    /\ card # NoCard =>
          \A t \in Offered(card) : C20_Allowed(card.stage, t)
    /\ card.isUpdating => C20_Allowed(card.stage, card.newStage)
    /\ card.conn # NoConn
          => /\ card.isUpdating
             /\ req[card.conn].pc # "idle"
             /\ req[card.conn].body = CardBody(card)

\* The Pass request of a pending card has reached the rpc of the endpoint.
C20_Witness ==
    /\ card.isUpdating
    /\ card.stage = "pending"
    /\ card.newStage = "rejected"
    /\ card.conn = "h1"
    /\ req["h1"].pc = "rpc"
    /\ req["h1"].body.stage = "rejected"

----------------------------------------------------------------------------
(* Claims about error handling *)

\* The responses the handler can build.
StructuredResponses ==
    {MissingFields, InvalidStage, StudentNotFound, UpdateFailed, InternalError}
        \cup {Success(st) : st \in validStages}

C14_State ==
    \A r \in Handlers :
        /\ req[r].pc = "done"
            => /\ req[r].resp \in StructuredResponses
               /\ req[r].resp.status \in {200, 400, 404, 500}
        /\ req[r].pc # "done" => req[r].resp = NoResp

C14_Step ==
    \A r \in Handlers :
        /\ (req[r].pc # "idle" /\ req[r].pc # "done")
              => req'[r].pc # "idle"
        /\ (req[r].pc = "done" /\ req'[r].pc = "done")
              => req'[r].resp = req[r].resp

\* C14: every request ends with exactly one structured JSON response of
\* status 200, 400, 404 or 500, whatever its body and whatever the datastore
\* does, a thrown exception at the parse, the digest, the lookup or the rpc
\* included: a handler that is done holds one such response, which no later
\* step replaces, a handler that is not done holds none, and no handler
\* leaves a request without passing through done.
C14_OneStructuredResponse == []C14_State /\ [][C14_Step]_vars

\* The rpc threw after the student was found, and the request was answered
\* with the 500 of the catch.
C14_Witness ==
    /\ req["h1"].pc = "done"
    /\ req["h1"].fault = "throw"
    /\ req["h1"].student # Null
    /\ req["h1"].resp = InternalError

\* The input of the request is malformed: no JSON object, a missing or empty
\* field, a token that is no string, or a stage outside validStages.
C15_Malformed(r) ==
    \/ req[r].fault = "parse"
    \/ MissingField(req[r].body)
    \/ ~IsString(req[r].body.token)
    \/ ~IsValidStage(req[r].body.stage)

\* C15: every request with a malformed, missing or unrecognized input (a
\* body that is no JSON, a field of the wrong type such as a token that is
\* no string, an absent field, an unknown stage) is answered with a 4xx
\* status and never with a 5xx status.
C15_MalformedIs4xx ==
    \A r \in Handlers :
        (req[r].pc = "done" /\ C15_Malformed(r))
            => req[r].resp.status >= 400 /\ req[r].resp.status <= 499

\* The student query for the token fails: the round trip is down, or more
\* than one active row carries the digest.
LookupFails(token, down) ==
    down \/ Cardinality(ActiveByHash(Sha256Hex(token))) > 1

C16_State ==
    /\ \A t \in Tokens, d \in BOOLEAN :
          LookupFails(t, d)
              => /\ getStudentByToken(t, d) = Null
                 /\ StudentPageLookup(t, d) = NotFound
    /\ view.down => view.page = NotFound
    /\ \A r \in Handlers :
          req[r].fault = "down"
              => req[r].pc = "done" /\ req[r].resp = StudentNotFound

C16_Step ==
    \A r \in Handlers :
        (/\ req[r].pc = "lookup"
         /\ req'[r] # req[r]
         /\ \/ req'[r].fault = "down"
            \/ LookupFails(req[r].body.token, FALSE))
            => /\ req'[r].pc = "done"
               /\ req'[r].resp = StudentNotFound
               /\ req'[r].resp.status = 404
               /\ req'[r].rpc = NoRpc
               /\ matches' = matches

\* C16: a failure of the student lookup itself (a datastore error or more
\* than one matching row) is final and shown as not-found: the view route
\* renders the not-found page, the endpoint answers 404 in the step of the
\* failed lookup, without a second lookup, without the rpc and without a
\* 5xx status.
C16_LookupFailureIsNotFound == []C16_State /\ [][C16_Step]_vars

\* Two active students carry the digest of the token of an answered request,
\* and the answer is the 404.
C16_Witness ==
    /\ req["h1"].pc = "done"
    /\ req["h1"].fault = "none"
    /\ req["h1"].body.token = "tokA"
    /\ Cardinality(ActiveByHash("hA")) > 1
    /\ req["h1"].resp = StudentNotFound
    /\ view.token = "tokA"
    /\ view.page = NotFound

----------------------------------------------------------------------------
(* Claims about the order of the list *)

\* No entry of another tier stands before a "Top 10" entry.
TopTenFirst(s) ==
    \A i, j \in 1..Len(s) :
        (i < j /\ s[j].tier = "Top 10") => s[i].tier = "Top 10"

\* C17: in the list of matches displayed for a student no match of another
\* tier stands before a "Top 10" match, whichever component rendered the
\* list and whatever the stages of the matches are.
C17_TopTenFirst == shown.by # "none" => TopTenFirst(shown.output)

----------------------------------------------------------------------------
(* Claims about the order of the checks *)

C18_State ==
    \A r \in Handlers :
        /\ (req[r].pc # "idle" /\ MissingField(req[r].body))
              => /\ req[r].pc = "done"
                 /\ req[r].resp = MissingFields
                 /\ NoDatastoreAccess(r)
        /\ (/\ req[r].pc # "idle"
            /\ ~MissingField(req[r].body)
            /\ ~IsValidStage(req[r].body.stage))
              => /\ req[r].pc = "done"
                 /\ req[r].resp = InvalidStage
                 /\ req[r].resp.status = 400
                 /\ NoDatastoreAccess(r)
        /\ req[r].pc \in {"lookup", "rpc", "respond"}
              => Validate(req[r].body) = NoResp
        /\ (req[r].pc \in {"rpc", "respond"} \/ req[r].rpc # NoRpc)
              => req[r].student # Null

C18_Step ==
    /\ \A r \in Handlers :
          /\ req[r].pc = "idle" => req'[r].pc \in {"idle", "lookup", "done"}
          /\ req[r].pc = "lookup" => req'[r].pc \in {"lookup", "rpc", "done"}
          /\ req[r].pc = "rpc" => req'[r].pc \in {"rpc", "respond"}
          /\ req[r].pc = "respond" => req'[r].pc \in {"respond", "done"}
    /\ matches' # matches => \E r \in Handlers : req[r].pc = "rpc"

\* C18: the endpoint checks in a fixed order: the presence of the three
\* fields, then the membership of the stage, then the resolution of the
\* token, then the stored procedure. A request with an unrecognized stage is
\* answered 400 "Invalid stage value" also when its token resolves to no
\* student, a request that fails a validation is answered without any
\* datastore access, the lookup runs for validated bodies only and the
\* stored procedure for resolved students only.
C18_CheckOrder == []C18_State /\ [][C18_Step]_vars

\* A request with an unknown stage and a token of no student was answered
\* 400 "Invalid stage value".
C18_Witness ==
    /\ req["h1"].pc = "done"
    /\ req["h1"].body = Body("tokX", "c1", "bogus_stage")
    /\ ~HasActiveStudent("tokX")
    /\ req["h1"].resp = InvalidStage

\* The response and the stored stage of the rpc of handler r, had the row of
\* the match held the stage src.
OutcomeFrom(r, src) ==
    LET a == RpcArgs(r)
        m == [matches EXCEPT ![KeyOf(r)].stage = src]
        u == update_match_stage(m, a.p_student_id, a.p_company_id, a.p_stage,
                                "none")
    IN  [resp |-> RpcResponse([data |-> u.data, error |-> u.error]),
         stage |-> u.matches[KeyOf(r)].stage]

\* C19: the endpoint enforces no transition edges: when a request with a
\* resolved token and a matched company is about to call the stored
\* procedure, then for each of the ten recognized stages the row could hold
\* the call is answered 200 with the requested stage and the row holds the
\* requested stage afterwards, so the outcome is the same from every source
\* stage, the requested stage itself included.
C19_NoTransitionEdges ==
    \A r \in Handlers :
        (req[r].pc = "rpc" /\ KeyOf(r) \in DOMAIN matches)
            => \A src \in validStages :
                  OutcomeFrom(r, src) =
                      [resp |-> Success(req[r].body.stage),
                       stage |-> req[r].body.stage]

----------------------------------------------------------------------------
(* Claims about the card and the stored stage *)

\* C21: with the card as the only writer of its match, whenever the card has
\* no request in flight the stage it displays is the stage stored for the
\* match, after any sequence of update attempts: attempts that fail, and
\* attempts whose response is lost or reports a failure after the write was
\* applied, included.
C21_DisplayedIsPersisted ==
    (card # NoCard /\ ~card.isUpdating)
        => card.stage = matches[<<"s1", CardCompany>>].stage

\* The group the comparator of StudentMatchesPage puts a stage in.
StageGroup(stage) ==
    IF stage = "rejected" THEN "rejected"
    ELSE IF stage \in AcceptedStages THEN "accepted"
    ELSE "other"

\* The three priorities, on a list.
C22_Ordered(s) ==
    \A i, j \in 1..Len(s) :
        i < j =>
            /\ s[i].stage = "rejected" => s[j].stage = "rejected"
            /\ (s[i].stage # "rejected" /\ s[j].stage \in AcceptedStages)
                  => s[i].stage \in AcceptedStages
            /\ (StageGroup(s[i].stage) = StageGroup(s[j].stage)
                /\ s[j].tier = "Top 10")
                  => s[i].tier = "Top 10"

\* Every entry of s stands at exactly one place of t.
C22_Permutation(s, t) ==
    /\ Len(s) = Len(t)
    /\ \A i \in 1..Len(s) : Cardinality({j \in 1..Len(t) : t[j] = s[i]}) = 1

\* Every combination of a tier and a recognized stage.
C22_Items == [tier : Tiers, stage : validStages]

\* The comparator is antisymmetric and transitive on all combinations.
C22_Consistent ==
    /\ \A a, b \in C22_Items : compareMatches(a, b) = 0 - compareMatches(b, a)
    /\ \A a, b, c \in C22_Items :
          (compareMatches(a, b) <= 0 /\ compareMatches(b, c) <= 0)
              => /\ compareMatches(a, c) <= 0
                 /\ (compareMatches(a, b) < 0 \/ compareMatches(b, c) < 0)
                       => compareMatches(a, c) < 0

\* C22: the list StudentMatchesPage produces is a permutation of its input
\* in which every rejected match stands after every other match, every
\* match in need_to_schedule, scheduled or completed stands before every
\* other match that is not rejected, and inside each of the three groups
\* every "Top 10" match stands before every match of another tier; its
\* comparator is antisymmetric and transitive over all combinations of a
\* recognized stage and a tier.
C22_ThreePriorities ==
    /\ C22_Consistent
    /\ shown.by = "StudentMatchesPage"
          => /\ C22_Ordered(shown.output)
             /\ C22_Permutation(shown.input, shown.output)

\* A list in the reverse of its display order has been sorted.
C22_Witness ==
    /\ shown.by = "StudentMatchesPage"
    /\ shown.input = << [id |-> 1, tier |-> "Top 10", stage |-> "rejected"],
                        [id |-> 2, tier |-> "Match", stage |-> "pending"],
                        [id |-> 3, tier |-> "Match", stage |-> "scheduled"] >>
    /\ shown.output = << shown.input[3], shown.input[2], shown.input[1] >>

C23_State ==
    /\ card.inFlight \in {0, 1}
    /\ card.isUpdating <=> card.inFlight = 1
    /\ card.isUpdating
          => /\ ViewMode(card).disabled
             /\ Offered(card) = {}
             /\ card.newStage \in ControlTargets(card)

C23_Step ==
    card.isUpdating
        => /\ card'.inFlight <= card.inFlight
           /\ card'.newStage \in {card.newStage, NoStage}

\* C23: a card has at most one update request in flight: while isUpdating is
\* true Accept, Pass, both undo buttons and the selector are disabled, no
\* request can be started, and no step starts a second request or replaces
\* the one in flight before it has settled.
C23_OneRequestInFlight == []C23_State /\ [][C23_Step]_vars

\* The selector asked for completed, the request is at the rpc and every
\* control of the card is disabled.
C23_Witness ==
    /\ card.isUpdating
    /\ card.inFlight = 1
    /\ card.stage = "scheduled"
    /\ card.newStage = "completed"
    /\ card.conn = "h1"
    /\ req["h1"].pc = "rpc"
    /\ ControlTargets(card) # {}
    /\ Offered(card) = {}

\* C24: every update a card starts clears isUpdating again: when the fetch
\* settles, with an ok response, an error response or a thrown error, a
\* card whose isUpdating is true reaches a state where it is false.
C24_IsUpdatingCleared == card.isUpdating ~> ~card.isUpdating

\* The request of a card has been answered with a 500 that the card has not
\* yet received.
C24_Witness ==
    /\ card.isUpdating
    /\ card.newStage = "need_to_schedule"
    /\ card.conn = "h1"
    /\ req["h1"].pc = "done"
    /\ req["h1"].resp = UpdateFailed

----------------------------------------------------------------------------
(* Claims about deactivation *)

C25_Step ==
    matches' # matches
        => \E r \in Handlers :
              /\ req[r].pc = "rpc"
              /\ req'[r].pc # "rpc"
              /\ students[req[r].student].is_active

\* C25: a stage write is applied only on behalf of a student who is active
\* at the moment of the write: every step that changes a match row is the
\* stored procedure call of a request whose student is active in that step,
\* so a request whose student was deactivated between its lookup and its
\* call changes no row.
C25_WriteOnlyForActive == [][C25_Step]_vars

====
